---- MODULE Spec2Model ----
(***************************************************************************)
(* Cloud Build -> Slack notifier (gcf-cloud-build-slack).                  *)
(*                                                                         *)
(* A Pub/Sub event carrying a Cloud Build record is handed to the Cloud    *)
(* Function subscribeSlack, which decodes it, formats a Slack message and  *)
(* posts it to the configured incoming webhooks.                           *)
(*                                                                         *)
(* Representation of JavaScript values:                                    *)
(*  - a string is a sequence of tokens (a token is a piece of text), so    *)
(*    that concatenation is \o, the empty string is << >>, and prefix,     *)
(*    substring and join are computed on the sequence;                     *)
(*  - undefined and null are the marker strings undefined and null       *)
(*    below, which no input string is equal to;                            *)
(*  - build.status is a TLA+ string, because it is used as a property key  *)
(*    of statusCodes; a build without a status has the key "undefined",    *)
(*    which is what statusCodes[undefined] looks up.                       *)
(***************************************************************************)
EXTENDS Integers, Sequences, FiniteSets, TLC

VARIABLES
  deployed,        \* which handler of the repository is deployed
  notifyStatuses,  \* SLACK_NOTIFY_STATUSES, parsed
  failureStatuses, \* SLACK_FAILURE_STATUSES, parsed
  ignoreTags,      \* SLACK_IGNORE_TAGS, parsed
  webhooks,        \* [general, failure]: is an IncomingWebhook constructed
  now,             \* the wall clock, in Unix seconds
  event,           \* the Pub/Sub event published last (<< >> before the first)
  inflight,        \* TRUE while that event waits to be handed to the function
  runs,            \* number of invocations the event has had
  build,           \* the decoded build of the last invocation (<<b>> or << >>)
  result,          \* what createSlackMessage gave in the last invocation
  prev,            \* what it gave in the invocation before, for the same event
  sent,            \* webhook send calls of the last invocation, in order
  outcome          \* how the last invocation ended

vars == <<deployed, notifyStatuses, failureStatuses, ignoreTags, webhooks, now,
          event, inflight, runs, build, result, prev, sent, outcome>>

config == <<deployed, notifyStatuses, failureStatuses, ignoreTags, webhooks>>

(***************************************************************************)
(* Bounds of the model.                                                    *)
(***************************************************************************)
MaxTags == 3         \* longest tag list of a build
MaxTicks == 1        \* seconds the clock may advance
MaxDeliveries == 2   \* times Pub/Sub hands the same event to the function

(***************************************************************************)
(* JavaScript values.                                                      *)
(***************************************************************************)
undefined == <<"#undefined">>
null == <<"#null">>

\* the truthiness of a string-or-undefined value
Truthy(x) == x # undefined /\ x # null /\ x # << >>

\* a || b
Or(a, b) == IF Truthy(a) THEN a ELSE b

\* the text a template literal puts for x
interpolate(x) ==
  IF x = undefined THEN <<"undefined">>
  ELSE IF x = null THEN <<"null">> ELSE x

\* x.startsWith(p)
startsWith(x, p) == Len(x) >= Len(p) /\ SubSeq(x, 1, Len(p)) = p

\* s.substring(0, n)
substring0(s, n) == SubSeq(s, 1, IF Len(s) < n THEN Len(s) ELSE n)

\* arr.includes(v)
includes(arr, v) == \E i \in 1..Len(arr) : arr[i] = v

\* arr.join(sep), for an array of strings
RECURSIVE join(_, _)
join(arr, sep) ==
  IF Len(arr) = 0 THEN << >>
  ELSE IF Len(arr) = 1 THEN arr[1]
  ELSE arr[1] \o sep \o join(Tail(arr), sep)


\* the number a numeral of an ISO-8601 time stands for
numeral == [n \in {"00", "01", "10", "2024"} |->
              CASE n = "00" -> 0 [] n = "01" -> 1 [] n = "10" -> 10 [] n = "2024" -> 2024]

\* days from 1970-01-01 to the civil date y-m-d
daysFromCivil(y, m, d) ==
  LET yy == IF m <= 2 THEN y - 1 ELSE y
      era == yy \div 400
      yoe == yy - era * 400
      mp == (m + 9) % 12
      doy == (153 * mp + 2) \div 5 + d - 1
      doe == yoe * 365 + yoe \div 4 - yoe \div 100 + doy
  IN era * 146097 + doe - 719468

\* Unix seconds of the ISO-8601 time YYYY-MM-DDThh:mm:ssZ
parseIso(text) ==
  daysFromCivil(numeral[text[1]], numeral[text[3]], numeral[text[5]]) * (24 * 3600)
    + numeral[text[7]] * 3600 + numeral[text[9]] * 60 + numeral[text[11]]

\* moment(text).unix(): moment(undefined) is the current time
momentUnix(text, clock) == IF text = undefined THEN clock ELSE parseIso(text)

(***************************************************************************)
(* index.js, the environment-configured handler (lines 221-473).           *)
(***************************************************************************)
statusCodes ==
  [ CANCELLED      |-> [color |-> <<"#fbbc05">>, text |-> <<"Build cancelled">>],
    FAILURE        |-> [color |-> <<"#ea4335">>, text |-> <<"Build failed">>],
    INTERNAL_ERROR |-> [color |-> <<"#ea4335">>,
                        text |-> <<"Internal error encountered during build">>],
    QUEUED         |-> [color |-> <<"#fbbc05">>, text |-> <<"New build queued">>],
    SUCCESS        |-> [color |-> <<"#34a853">>,
                        text |-> <<"Build successfully completed">>],
    TIMEOUT        |-> [color |-> <<"#ea4335">>, text |-> <<"Build timed out">>],
    WORKING        |-> [color |-> <<"#34a853">>, text |-> <<"New build in progress">>],
    STATUS_UNKNOWN |-> [color |-> <<"#444444">>, text |-> <<"Unknown build status">>] ]

\* the value of failureStatuses when SLACK_FAILURE_STATUSES is not set
defaultFailureStatuses == <<"FAILURE", "INTERNAL_ERROR", "TIMEOUT">>

\* the value of notifyStatuses when SLACK_NOTIFY_STATUSES is not set
defaultNotifyStatuses == <<"SUCCESS", "FAILURE", "INTERNAL_ERROR", "TIMEOUT", "CANCELLED">>

\* the value of ignoreTags when SLACK_IGNORE_TAGS is not set
defaultIgnoreTags == << <<"schedule">> >>

\* Markdown.markdown(text)
markdown(text) == [type |-> "mrkdwn", text |-> text, verbatim |-> FALSE]

\* Markdown.field(key, value)
field(key, value) == markdown(interpolate(key) \o <<"\n", "*">> \o interpolate(value) \o <<"*">>)

\* Markdown.link(href, text)
link(href, text) ==
  IF Truthy(text) THEN <<"<">> \o interpolate(href) \o <<"|">> \o interpolate(text) \o <<">">>
  ELSE <<"<">> \o interpolate(href) \o <<">">>

\* the backquote character, written as a token of its own
backquote == <<"[backquote]">>

\* Markdown.code(text)
code(text) == backquote \o text \o backquote

\* blocks of a message
divider == [type |-> "divider", elements |-> << >>]
context(elements) == [type |-> "context", elements |-> elements]

\* what a formatter gives: a message, or the error it throws; commitLink is
\* the value its local of that name had when it ended (undefined when the
\* formatter has no such local or did not get to assign it)
Returned(message, commitLink) ==
  [error |-> "none", message |-> <<message>>, commitLink |-> commitLink]
Thrown(error, commitLink) ==
  [error |-> error, message |-> << >>, commitLink |-> commitLink]

\* (substitutions || {}).key
substitution(b, key) == IF b.substitutions.present THEN b.substitutions[key] ELSE undefined

\* absent build.tags
NoTags == << undefined >>

\* the absent repoSource and resolvedRepoSource: every field reads undefined
NoRepoSource ==
  [present |-> FALSE, projectId |-> undefined, repoName |-> undefined,
   branchName |-> undefined]

NoResolvedRepoSource == [present |-> FALSE, commitSha |-> undefined, tagName |-> undefined]

\* line 368-370: statusMsg; the property access on statusCodes[build.status]
\* throws TypeError when the status is no key of the table
statusMsgThrows(b) == b.status \notin DOMAIN statusCodes
statusMsg(b) ==
  [ text  |-> Or(statusCodes[b.status].text, <<b.status>>),
    color |-> Or(statusCodes[b.status].color, <<"#444444">>) ]

\* triggerFiltered without the filter of line 374
triggerFiltered_unfiltered(b) == IF b.tags = NoTags THEN << >> ELSE b.tags

\* lines 373-374: tags = (tags || []).filter(x => !x.startsWith(trigger-))
triggerFiltered(b) ==
  SelectSeq(IF b.tags = NoTags THEN << >> ELSE b.tags,
            LAMBDA x : ~startsWith(x, <<"trigger-">>))

\* line 375
isScheduler(b) == includes(triggerFiltered(b), <<"schedule">>)

\* lines 384-392: orgId
orgId(b) ==
  IF isScheduler(b)
  THEN join(SelectSeq(triggerFiltered(b), LAMBDA x : x # <<"schedule">>), <<", ">>)
  ELSE null

\* lines 385-392: type
type(b) == IF isScheduler(b) THEN <<"Schedule">> ELSE <<"Build">>

\* lines 386-392: tags, as left for the tag block
shownTags(b) ==
  IF isScheduler(b)
  THEN SelectSeq(triggerFiltered(b), LAMBDA x : x # <<"schedule">> /\ x # orgId(b))
  ELSE triggerFiltered(b)

\* lines 379-381
repoName(b) == substitution(b, "REPO_NAME")
branchName(b) == substitution(b, "BRANCH_NAME")
commitSha(b) == Or(substitution(b, "COMMIT_SHA"), substitution(b, "REVISION_ID"))

\* lines 394-414 (the placeholder is an em dash in the source)
repoSection(b) ==
  IF Truthy(repoName(b)) \/ Truthy(branchName(b)) \/ Truthy(commitSha(b))
  THEN << divider,
          context(<<field(<<"Branch">>, Or(branchName(b), <<"-">>))>>),
          context(<<field(<<"Commit">>, Or(commitSha(b), <<"-">>))>>),
          context(<<field(<<"Repo">>, Or(repoName(b), <<"-">>))>>) >>
  ELSE << >>

\* summary with the branch name taken before the organization id
summary_branchFirst(b) ==
  statusMsg(b).text \o <<": ">> \o type(b) \o <<" for ">>
    \o interpolate(Or(Or(branchName(b), orgId(b)), b.id))

\* line 417: the summary line
summary(b) ==
  statusMsg(b).text \o <<": ">> \o type(b) \o <<" for ">>
    \o interpolate(Or(Or(orgId(b), branchName(b)), b.id))

\* lines 432-442
orgSection(b) ==
  IF Truthy(orgId(b))
  THEN << divider,
          context(<<markdown(<<"Organization ID", "\n">> \o backquote \o orgId(b) \o backquote)>>) >>
  ELSE << >>

\* line 453: tags.map(x => backquote + x + backquote)
quoted(tags) == [i \in 1..Len(tags) |-> backquote \o tags[i] \o backquote]

\* lines 446-456
tagSection(b) ==
  IF Len(shownTags(b)) > 0
  THEN << divider,
          context(<<field(<<"Tags">>, join(quoted(shownTags(b)), <<"\n">>))>>) >>
  ELSE << >>

\* lines 366-473: createSlackMessage
createSlackMessage(b) ==
  IF statusMsgThrows(b) THEN Thrown("TypeError", undefined)
  ELSE Returned(
    [ text   |-> summary(b),
      color  |-> statusMsg(b).color,
      blocks |->
        << context(<<markdown(link(b.logUrl, <<"Click here to view logs...">>))>>),
           context(<<markdown(<<"Type: *">> \o type(b) \o <<"*">>),
                     markdown(<<"Status: *", b.status, "*">>)>>) >>
        \o orgSection(b) \o repoSection(b) \o tagSection(b) ],
    undefined)

\* lines 326-330: eventToBuild; JSON.parse throws SyntaxError on a payload
\* that is not the base64 of a JSON document
eventToBuild(data) ==
  IF data.base64 /\ data.json
  THEN [error |-> "none", build |-> <<data.build>>]
  ELSE [error |-> "SyntaxError", build |-> << >>]

\* one call of IncomingWebhook.send: an async function, so a failed POST is a
\* rejected promise and never an exception in the caller
send(channel, message, ok) == [channel |-> channel, message |-> message, ok |-> ok]

\* deliver without the check of line 313
deliver_anyStatus(b, message, okFailure, okGeneral) ==
  LET xTags == SelectSeq(IF b.tags = NoTags THEN << >> ELSE b.tags,
                         LAMBDA v : includes(ignoreTags, v))
  IN IF Len(xTags) > 0 /\ b.status = "SUCCESS" THEN << >>
     ELSE (IF webhooks.failure /\ includes(failureStatuses, b.status)
           THEN << send("failure", message, okFailure) >>
           ELSE << >>)
          \o << send("general", message, okGeneral) >>

\* deliver as if the failure send were awaited: a failed POST ends the handler
deliver_awaited(b, message, okFailure, okGeneral) ==
  IF ~includes(notifyStatuses, b.status) THEN << >>
  ELSE
    LET xTags == SelectSeq(IF b.tags = NoTags THEN << >> ELSE b.tags,
                           LAMBDA v : includes(ignoreTags, v))
    IN IF Len(xTags) > 0 /\ b.status = "SUCCESS" THEN << >>
       ELSE IF webhooks.failure /\ includes(failureStatuses, b.status)
            THEN IF okFailure
                 THEN << send("failure", message, okFailure),
                         send("general", message, okGeneral) >>
                 ELSE << send("failure", message, okFailure) >>
            ELSE << send("general", message, okGeneral) >>

\* lines 312-322: the policy and the two sends; okFailure and okGeneral are
\* the results of the two POSTs
deliver(b, message, okFailure, okGeneral) ==
  IF ~includes(notifyStatuses, b.status) THEN << >>
  ELSE
    LET xTags == SelectSeq(IF b.tags = NoTags THEN << >> ELSE b.tags,
                           LAMBDA v : includes(ignoreTags, v))
    IN IF Len(xTags) > 0 /\ b.status = "SUCCESS" THEN << >>
       ELSE (IF webhooks.failure /\ includes(failureStatuses, b.status)
             THEN << send("failure", message, okFailure) >>
             ELSE << >>)
            \o << send("general", message, okGeneral) >>

(***************************************************************************)
(* src/unnamed/part_001: the handler with one webhook, whose formatter     *)
(* merges the repository fields with the substitutions.                    *)
(***************************************************************************)
\* mrkdwn(text)
mrkdwn(text) == [type |-> "mrkdwn", text |-> text, verbatim |-> FALSE]

\* mrkdwnField(key, value)
mrkdwnField(key, value) ==
  mrkdwn(<<"*">> \o interpolate(key) \o <<":*", "\n">> \o interpolate(value) \o <<"\n">>)

\* mrkdwnLink(href, text)
mrkdwnLink(href, text) ==
  IF Truthy(text) THEN <<"<">> \o interpolate(href) \o <<"|">> \o interpolate(text) \o <<">">>
  ELSE <<"<">> \o interpolate(href) \o <<">">>

\* mrkdwnInlineCode(text)
mrkdwnInlineCode(text) == backquote \o interpolate(text) \o backquote

\* mrkdwnTimestamp(text), evaluated when the clock shows clock
mrkdwnTimestamp(text, clock) ==
  <<"<!date^", ToString(momentUnix(text, clock)), "^{date_short_pretty} {time_secs}|">>
    \o interpolate(text) \o <<">">>

\* a section block with a text, and one with fields
sectionText(text) == [type |-> "section", text |-> <<text>>, fields |-> << >>]
sectionFields(fields) == [type |-> "section", text |-> << >>, fields |-> fields]

\* the commit URL of both formatters that link the commit
sourceUrl(projectId, repo, sha) ==
  <<"https://source.cloud.google.com/">> \o interpolate(projectId) \o <<"/">>
    \o interpolate(repo) \o <<"/+/">> \o interpolate(sha)

\* lines 58-61: (source || {}).repoSource || {}, and the same for the provenance
repoSource_part001(b) == IF b.source.present THEN b.source.repoSource ELSE NoRepoSource
resolvedRepoSource_part001(b) ==
  IF b.sourceProvenance.present THEN b.sourceProvenance.resolvedRepoSource
  ELSE NoResolvedRepoSource

\* lines 60-65
projectId_part001(b) == repoSource_part001(b).projectId
repoName_part001(b) == Or(repoSource_part001(b).repoName, substitution(b, "REPO_NAME"))
branchName_part001(b) == Or(repoSource_part001(b).branchName, substitution(b, "BRANCH_NAME"))
commitSha_part001(b) ==
  Or(Or(resolvedRepoSource_part001(b).commitSha, substitution(b, "COMMIT_SHA")),
     substitution(b, "REVISION_ID"))
tagName_part001(b) == resolvedRepoSource_part001(b).tagName

\* line 89
hasRepoInfo(b) ==
  Truthy(projectId_part001(b)) /\ Truthy(repoName_part001(b)) /\ Truthy(commitSha_part001(b))

\* lines 90-92
commitLink_part001(b) ==
  IF hasRepoInfo(b)
  THEN mrkdwnLink(sourceUrl(projectId_part001(b), repoName_part001(b), commitSha_part001(b)),
                  mrkdwnInlineCode(substring0(commitSha_part001(b), 7)))
  ELSE <<"n/a">>

\* lines 56-135: createSlackMessage
createSlackMessage_part001(b, clock) ==
  Returned(
    [ text   |-> <<b.status, ": ">> \o interpolate(Or(branchName_part001(b), b.id)),
      blocks |->
        << sectionText(mrkdwn(mrkdwnLink(b.logUrl, <<"*Build Logs*">>))),
           sectionFields(
             << mrkdwnField(<<"Status">>, <<b.status>>),
                mrkdwnField(<<"Repo">>, Or(repoName_part001(b), <<"n/a">>)),
                mrkdwnField(<<"Branch">>, Or(branchName_part001(b), <<"n/a">>)),
                mrkdwnField(<<"Images">>, join(b.images, <<"\n">>)),
                mrkdwnField(<<"Commit">>, commitLink_part001(b)),
                mrkdwnField(<<"Tag">>, Or(tagName_part001(b), <<"n/a">>)),
                mrkdwnField(<<"Start">>, mrkdwnTimestamp(b.startTime, clock)),
                mrkdwnField(<<"Finish">>, mrkdwnTimestamp(b.finishTime, clock)) >>) >> ],
    commitLink_part001(b))

\* lines 34-45: the policy and the send; without SLACK_WEBHOOK_URL there is
\* no webhook and the message is dropped with a warning
deliver_part001(b, message, ok) ==
  IF ~includes(notifyStatuses, b.status) THEN << >>
  ELSE
    LET xTags == SelectSeq(IF b.tags = NoTags THEN << >> ELSE b.tags,
                           LAMBDA v : includes(ignoreTags, v))
    IN IF Len(xTags) > 0 /\ b.status = "SUCCESS" THEN << >>
       ELSE IF webhooks.general THEN << send("general", message, ok) >> ELSE << >>

(***************************************************************************)
(* index.js lines 1-113: the handler with a fixed status list, whose       *)
(* formatter reads the repository fields of the build alone.               *)
(***************************************************************************)
\* line 19
status_early == <<"SUCCESS", "FAILURE", "INTERNAL_ERROR", "TIMEOUT", "CANCELLED">>

\* lines 39-40: reading a property of an absent source or sourceProvenance
\* throws TypeError
sourceThrows_early(b) == ~b.source.present \/ ~b.sourceProvenance.present

\* lines 64-66: the link is built whenever the build has a repoSource
commitUrl_early(b) ==
  IF b.source.repoSource.present
  THEN sourceUrl(b.source.repoSource.projectId, b.source.repoSource.repoName,
                 b.sourceProvenance.resolvedRepoSource.commitSha)
  ELSE null

\* line 68: commitSha.substring throws TypeError when commitSha is undefined
shortShaThrows_early(b) ==
  b.source.repoSource.present /\ b.sourceProvenance.resolvedRepoSource.commitSha = undefined
shortSha_early(b) ==
  IF b.source.repoSource.present
  THEN substring0(b.sourceProvenance.resolvedRepoSource.commitSha, 7)
  ELSE null

\* line 70
commitLink_early(b) ==
  IF Truthy(commitUrl_early(b))
  THEN mrkdwnLink(commitUrl_early(b), mrkdwnInlineCode(shortSha_early(b)))
  ELSE <<"n/a">>

\* lines 37-113: createSlackMessage; line 84 reads the variable repo, which
\* is declared nowhere, so building the message throws ReferenceError
createSlackMessage_early(b) ==
  IF sourceThrows_early(b) \/ shortShaThrows_early(b) THEN Thrown("TypeError", undefined)
  ELSE Thrown("ReferenceError", commitLink_early(b))

(***************************************************************************)
(* The inputs: build records and Pub/Sub events.                           *)
(***************************************************************************)
Statuses == {"SUCCESS", "FAILURE", "CANCELLED", "WORKING", "BOGUS", "undefined"}

TagNames == { <<"schedule">>, <<"trigger-", "abc">>, <<"team-x">>, <<"nightly">> }

\* tag lists without repetition, up to MaxTags long, and the absent list
TagLists ==
  { t \in UNION { [1..n -> TagNames] : n \in 0..MaxTags } :
      \A i, j \in DOMAIN t : t[i] = t[j] => i = j }
  \cup { NoTags }

\* ISO-8601 times, as strings
StartTime == <<"2024", "-", "01", "-", "01", "T", "00", ":", "00", ":", "00", "Z">>
FinishTime == <<"2024", "-", "01", "-", "01", "T", "00", ":", "10", ":", "00", "Z">>

Sha1 == <<"a", "b", "c", "d", "e", "f", "1", "2", "3">>
Sha2 == <<"9", "8", "7">>
Sha3 == <<"0", "0", "c", "a", "f", "e", "0", "0">>

NoSubstitutions ==
  [present |-> FALSE, REPO_NAME |-> undefined, BRANCH_NAME |-> undefined,
   COMMIT_SHA |-> undefined, REVISION_ID |-> undefined]

Substitutions ==
  { [present |-> TRUE, REPO_NAME |-> r, BRANCH_NAME |-> br,
     COMMIT_SHA |-> c[1], REVISION_ID |-> c[2]] :
      r \in {undefined, <<"svc">>}, br \in {undefined, <<"main">>},
      c \in { <<Sha1, Sha2>>, <<undefined, Sha2>>, <<undefined, undefined>> } }
  \cup { NoSubstitutions }

Sources ==
  { [present |-> TRUE,
     repoSource |-> [present |-> TRUE, projectId |-> p, repoName |-> r, branchName |-> br]] :
      p \in {undefined, <<"proj">>}, r \in {undefined, <<"repo">>},
      br \in {undefined, <<"dev">>} }
  \cup { [present |-> TRUE, repoSource |-> NoRepoSource],
         [present |-> FALSE, repoSource |-> NoRepoSource] }

SourceProvenances ==
  { [present |-> TRUE,
     resolvedRepoSource |-> [present |-> TRUE, commitSha |-> c, tagName |-> undefined]] :
      c \in {undefined, Sha3} }
  \cup { [present |-> TRUE, resolvedRepoSource |-> NoResolvedRepoSource],
         [present |-> FALSE, resolvedRepoSource |-> NoResolvedRepoSource] }

BaseBuild ==
  [ id |-> <<"b-1">>, status |-> "SUCCESS", logUrl |-> <<"https://x/log">>,
    startTime |-> StartTime, finishTime |-> FinishTime, images |-> << >>,
    tags |-> NoTags, substitutions |-> NoSubstitutions,
    source |-> [present |-> FALSE, repoSource |-> NoRepoSource],
    sourceProvenance |-> [present |-> FALSE, resolvedRepoSource |-> NoResolvedRepoSource] ]

\* builds that vary in status, tags and branch
TagBuilds ==
  { [BaseBuild EXCEPT !.status = s, !.tags = t,
                      !.substitutions = [NoSubstitutions EXCEPT !.present = TRUE,
                                                                !.BRANCH_NAME = br]] :
      s \in Statuses, t \in TagLists, br \in {undefined, <<"main">>} }

\* builds that vary in where the repository fields come from
RepoBuilds ==
  { [BaseBuild EXCEPT !.substitutions = su, !.source = so, !.sourceProvenance = sp] :
      su \in Substitutions, so \in Sources, sp \in SourceProvenances }

\* builds that vary in which times are known
TimeBuilds ==
  { [BaseBuild EXCEPT !.status = s, !.startTime = st, !.finishTime = ft] :
      s \in {"SUCCESS", "WORKING"}, st \in {StartTime, undefined}, ft \in {FinishTime, undefined} }

Builds == TagBuilds \cup RepoBuilds \cup TimeBuilds

Events ==
  { [data |-> [base64 |-> TRUE, json |-> TRUE, build |-> b]] : b \in Builds }
  \cup { [data |-> [base64 |-> ok[1], json |-> ok[2], build |-> BaseBuild]] :
           ok \in { <<FALSE, TRUE>>, <<TRUE, FALSE>> } }

(***************************************************************************)
(* The configurations the function is deployed with.                       *)
(***************************************************************************)
NotifyConfigs == { defaultNotifyStatuses, <<"FAILURE", "WORKING", "BOGUS">> }
FailureConfigs == { defaultFailureStatuses, <<"CANCELLED", "BOGUS">> }
IgnoreConfigs == { defaultIgnoreTags, << <<"nightly">>, <<"team-x">> >> }

\* the clock when the event is published: a minute after the build finished
Epoch == parseIso(<<"2024", "-", "01", "-", "01", "T", "00", ":", "10", ":", "00", "Z">>) + 60

\* index.js lines 267-299: SLACK_WEBHOOK_URL is required
Init_index ==
  /\ deployed = "index"
  /\ notifyStatuses \in NotifyConfigs
  /\ failureStatuses \in FailureConfigs
  /\ ignoreTags \in IgnoreConfigs
  \* the ignored tags are customised on top of the default statuses
  /\ ignoreTags # defaultIgnoreTags =>
       notifyStatuses = defaultNotifyStatuses /\ failureStatuses = defaultFailureStatuses
  /\ webhooks \in { [general |-> TRUE, failure |-> f] : f \in BOOLEAN }

\* part_001 lines 3-21: one webhook, absent without SLACK_WEBHOOK_URL
Init_part001 ==
  /\ deployed = "part_001"
  /\ notifyStatuses \in NotifyConfigs
  /\ failureStatuses = defaultFailureStatuses
  /\ ignoreTags \in IgnoreConfigs
  \* the ignored tags are customised on top of the default statuses
  /\ ignoreTags # defaultIgnoreTags => notifyStatuses = defaultNotifyStatuses
  /\ webhooks \in { [general |-> g, failure |-> FALSE] : g \in BOOLEAN }

\* index.js lines 3-5 and 19: nothing is configurable but the URL
Init_early ==
  /\ deployed = "early"
  /\ notifyStatuses = status_early
  /\ failureStatuses = defaultFailureStatuses
  /\ ignoreTags = << >>
  /\ webhooks = [general |-> TRUE, failure |-> FALSE]

Init ==
  /\ Init_index \/ Init_part001 \/ Init_early
  /\ now = Epoch
  /\ event = << >>
  /\ inflight = FALSE
  /\ runs = 0
  /\ build = << >>
  /\ result = << >>
  /\ prev = << >>
  /\ sent = << >>
  /\ outcome = "none"

\* Cloud Build publishes a build event to the topic. The function keeps no
\* state from one event to the next, so a behaviour follows one event.
Publish ==
  /\ event = << >>
  /\ \E e \in Events : event' = <<e>>
  /\ inflight' = TRUE
  /\ UNCHANGED <<config, now, runs, build, result, prev, sent, outcome>>

\* Pub/Sub hands the same event to the function once more
Redeliver ==
  /\ ~inflight
  /\ runs >= 1
  /\ runs < MaxDeliveries
  /\ inflight' = TRUE
  /\ UNCHANGED <<config, now, event, runs, build, result, prev, sent, outcome>>

\* a second passes
Tick ==
  /\ now < Epoch + MaxTicks
  /\ now' = now + 1
  /\ UNCHANGED <<config, event, inflight, runs, build, result, prev, sent, outcome>>

\* index.js lines 302-323: one invocation of subscribeSlack
subscribeSlack ==
  /\ deployed = "index"
  /\ inflight
  /\ inflight' = FALSE
  /\ runs' = runs + 1
  /\ prev' = result
  /\ LET decoded == eventToBuild(event[1].data) IN
       /\ build' = decoded.build
       /\ IF decoded.error # "none"
          THEN /\ result' = << >>
               /\ sent' = << >>
               /\ outcome' = decoded.error
          ELSE LET b == decoded.build[1]
                   message == createSlackMessage(b)
               IN /\ result' = <<message>>
                  /\ IF message.error # "none"
                     THEN /\ sent' = << >>
                          /\ outcome' = message.error
                     ELSE /\ \E okFailure, okGeneral \in BOOLEAN :
                               sent' = deliver(b, message.message[1], okFailure, okGeneral)
                          /\ outcome' = "returned"
  /\ UNCHANGED <<config, now, event>>

\* part_001 lines 24-46: one invocation of subscribeSlack
subscribeSlack_part001 ==
  /\ deployed = "part_001"
  /\ inflight
  /\ inflight' = FALSE
  /\ runs' = runs + 1
  /\ prev' = result
  /\ LET decoded == eventToBuild(event[1].data) IN
       /\ build' = decoded.build
       /\ IF decoded.error # "none"
          THEN /\ result' = << >>
               /\ sent' = << >>
               /\ outcome' = decoded.error
          ELSE LET b == decoded.build[1]
                   message == createSlackMessage_part001(b, now)
               IN /\ result' = <<message>>
                  /\ \E ok \in BOOLEAN : sent' = deliver_part001(b, message.message[1], ok)
                  /\ outcome' = "returned"
  /\ UNCHANGED <<config, now, event>>

\* index.js lines 8-27: one invocation of subscribeSlack
subscribeSlack_early ==
  /\ deployed = "early"
  /\ inflight
  /\ inflight' = FALSE
  /\ runs' = runs + 1
  /\ prev' = result
  /\ LET decoded == eventToBuild(event[1].data) IN
       /\ build' = decoded.build
       /\ IF decoded.error # "none"
          THEN /\ result' = << >>
               /\ sent' = << >>
               /\ outcome' = decoded.error
          ELSE LET b == decoded.build[1] IN
               IF ~includes(status_early, b.status)
               THEN /\ result' = << >>
                    /\ sent' = << >>
                    /\ outcome' = "returned"
               ELSE LET message == createSlackMessage_early(b) IN
                    /\ result' = <<message>>
                    /\ IF message.error # "none"
                       THEN /\ sent' = << >>
                            /\ outcome' = message.error
                       ELSE /\ \E ok \in BOOLEAN :
                                 sent' = << send("general", message.message[1], ok) >>
                            /\ outcome' = "returned"
  /\ UNCHANGED <<config, now, event>>

Next == Publish \/ Redeliver \/ Tick \/ subscribeSlack \/ subscribeSlack_part001
          \/ subscribeSlack_early

Spec == Init /\ [][Next]_vars

(***************************************************************************)
(* Properties.                                                             *)
(***************************************************************************)
Range(f) == { f[i] : i \in DOMAIN f }

\* an invocation has decoded a build
Decoded == runs >= 1 /\ build # << >>

TagSet(b) == IF b.tags = NoTags THEN {} ELSE Range(b.tags)

\* the build's status is in the configured notify set
InNotifySet(b) == b.status \in Range(notifyStatuses)

\* the build is a SUCCESS that carries an ignore-tag
Suppressed(b) == b.status = "SUCCESS" /\ TagSet(b) \cap Range(ignoreTags) # {}

\* the build qualifies for the failure channel
ForFailureChannel(b) ==
  /\ InNotifySet(b) /\ ~Suppressed(b)
  /\ webhooks.failure /\ b.status \in Range(failureStatuses)

\* the send calls of the last invocation to a channel
SentTo(channel) == { i \in DOMAIN sent : sent[i].channel = channel }

\* C1: a build whose status is not in the notify set is delivered to neither
\* channel, whatever its tags and whether or not the failure webhook is set.
C1_NoDeliveryOutsideNotifySet ==
  (deployed \in {"index", "part_001"} /\ Decoded /\ ~InNotifySet(build[1]))
    => sent = << >>

\* a CANCELLED build with tags, outside the notify set, with the failure
\* webhook configured and CANCELLED a failure status, has been handled
C1_Witness ==
  /\ deployed = "index" /\ Decoded /\ outcome = "returned"
  /\ ~InNotifySet(build[1])
  /\ build[1].status \in Range(failureStatuses) /\ webhooks.failure
  /\ TagSet(build[1]) # {}
  /\ sent = << >>

\* C2 as stated: an ignore-tag suppresses a SUCCESS build entirely, a build
\* with the same tags and another status of the notify set is delivered to the
\* general channel, and a build without tags is never suppressed.
C2_TagSuppressionOnlyForSuccess ==
  (deployed \in {"index", "part_001"} /\ Decoded /\ InNotifySet(build[1])
     /\ webhooks.general)
    => /\ Suppressed(build[1]) => sent = << >>
       /\ (TagSet(build[1]) \cap Range(ignoreTags) # {} /\ build[1].status # "SUCCESS")
            => SentTo("general") # {}
       /\ TagSet(build[1]) = {} => SentTo("general") # {}

\* C3 as stated: an event that passes the policy is always sent to the
\* general channel, and to the failure channel with the same message exactly
\* when that webhook is configured and the status is a failure status; an
\* event that does not pass is never sent to the failure channel.
C3_ChannelRouting ==
  (deployed = "index" /\ Decoded)
    => /\ (InNotifySet(build[1]) /\ ~Suppressed(build[1]))
            => /\ result[1].error = "none"
               /\ \E i \in SentTo("general") : sent[i].message = result[1].message[1]
               /\ ForFailureChannel(build[1])
                    <=> \E i \in SentTo("failure") : sent[i].message = result[1].message[1]
       /\ ~(InNotifySet(build[1]) /\ ~Suppressed(build[1])) => SentTo("failure") = {}

\* C4: when an event qualifies for both channels and a send fails, the other
\* channel is still sent to in that invocation, and no channel is sent to twice.
C4_IndependentDeliveries ==
  (deployed = "index" /\ Decoded /\ ForFailureChannel(build[1])
     /\ \E i \in DOMAIN sent : ~sent[i].ok)
    => /\ Cardinality(SentTo("failure")) = 1
       /\ Cardinality(SentTo("general")) = 1
       /\ Len(sent) = 2

\* the failure send failed and the general send was made all the same
C4_Witness ==
  /\ deployed = "index" /\ Decoded /\ ForFailureChannel(build[1])
  /\ Len(sent) = 2
  /\ sent[1].channel = "failure" /\ ~sent[1].ok
  /\ sent[2].channel = "general" /\ sent[2].ok

\* C5 as stated: an invocation for a decodable event that the policy rejects
\* ends without an error, whether or not its message can be formatted.
C5_FilteredIsNotAnError ==
  (deployed = "index" /\ Decoded /\ (~InNotifySet(build[1]) \/ Suppressed(build[1])))
    => outcome = "returned"

\* C6 as stated: createSlackMessage gives the description and color of the
\* status table for a status in it, and "Unknown build status" with #444444
\* for any other status, an absent one included.
C6_FormatterTotalOverStatus ==
  (deployed = "index" /\ Decoded)
    => /\ result[1].error = "none"
       /\ LET m == result[1].message[1]
              entry == IF build[1].status \in DOMAIN statusCodes
                       THEN statusCodes[build[1].status]
                       ELSE [color |-> <<"#444444">>, text |-> <<"Unknown build status">>]
          IN /\ m.color = entry.color
             /\ SubSeq(m.text, 1, 1) = entry.text

\* the first value of a fallback chain that is present, undefined if none is
RECURSIVE FirstPresent(_)
FirstPresent(chain) ==
  IF chain = << >> THEN undefined
  ELSE IF Head(chain) # undefined /\ Head(chain) # << >> THEN Head(chain)
  ELSE FirstPresent(Tail(chain))

\* projectId, repoName and commitSha after the fallback chain of the deployed
\* formatter: only part_001 falls back to the substitutions
C7_Fields(b) ==
  LET rs == IF b.source.present THEN b.source.repoSource ELSE NoRepoSource
      rrs == IF b.sourceProvenance.present THEN b.sourceProvenance.resolvedRepoSource
             ELSE NoResolvedRepoSource
      su == b.substitutions
  IN IF deployed = "part_001"
     THEN [ projectId |-> rs.projectId,
            repoName  |-> FirstPresent(<<rs.repoName, su.REPO_NAME>>),
            commitSha |-> FirstPresent(<<rrs.commitSha, su.COMMIT_SHA, su.REVISION_ID>>) ]
     ELSE [ projectId |-> rs.projectId, repoName |-> rs.repoName,
            commitSha |-> rrs.commitSha ]

\* C7 as stated: the commit field is the link
\* <https://source.cloud.google.com/{projectId}/{repoName}/+/{commitSha}|label>,
\* the label being the first 7 characters of commitSha as inline code, when
\* projectId, repoName and commitSha are all present; otherwise it is exactly
\* n/a, and computing it raises no error (commitLink is undefined when the
\* formatter threw before it had the field). For the formatter of index.js
\* lines 37-113 the builds are those with a source and a sourceProvenance,
\* which it cannot read the three values without.
C7_CommitLinkOnlyWhenComplete ==
  (/\ deployed \in {"part_001", "early"} /\ Decoded /\ result # << >>
   /\ deployed = "early" => build[1].source.present /\ build[1].sourceProvenance.present)
    => LET f == C7_Fields(build[1])
           complete == f.projectId # undefined /\ f.repoName # undefined
                         /\ f.commitSha # undefined
       IN IF complete
          THEN result[1].commitLink =
                 <<"<", "https://source.cloud.google.com/">> \o f.projectId \o <<"/">>
                   \o f.repoName \o <<"/+/">> \o f.commitSha \o <<"|">> \o backquote
                   \o SubSeq(f.commitSha, 1, IF Len(f.commitSha) < 7 THEN Len(f.commitSha) ELSE 7)
                   \o backquote \o <<">">>
          ELSE result[1].commitLink = <<"n/a">>

\* the build's tags that do not start with trigger-, in their order
NonTrigger(b) ==
  SelectSeq(IF b.tags = NoTags THEN << >> ELSE b.tags,
            LAMBDA x : x = << >> \/ x[1] # "trigger-")

\* the tag blocks of a message of index.js
TagBlocks(m) ==
  SelectSeq(m.blocks, LAMBDA k : /\ k.type = "context"
                                 /\ Len(k.elements) = 1
                                 /\ k.elements[1].text[1] = "Tags")

\* each tag as a code-formatted token, one per line
RECURSIVE CodeLines(_)
CodeLines(list) ==
  IF list = << >> THEN << >>
  ELSE backquote \o Head(list) \o backquote
         \o (IF Len(list) > 1 THEN <<"\n">> \o CodeLines(Tail(list)) ELSE << >>)

\* the message has exactly the tag block that lists list, or none if list is empty
ListsTags(m, list) ==
  IF list = << >> THEN TagBlocks(m) = << >>
  ELSE /\ Len(TagBlocks(m)) = 1
       /\ TagBlocks(m)[1].elements[1].text = <<"Tags", "\n", "*">> \o CodeLines(list) \o <<"*">>

\* a message of index.js has been rendered
Rendered == deployed = "index" /\ Decoded /\ result[1].error = "none"

\* C8 as stated: the tag block lists exactly the tags that do not start with
\* trigger-, code-formatted and in order, and is not emitted when there is none.
C8_TagBlockListsNonTriggerTags ==
  Rendered => ListsTags(result[1].message[1], NonTrigger(build[1]))

\* C8 as amended: as stated for a build whose tags do not contain "schedule";
\* for a Schedule build "schedule" is not listed either, nor is the other
\* remaining tag when there is exactly one (it is shown as the organization id).
C8_TagBlockAmended ==
  Rendered =>
    LET rest == SelectSeq(NonTrigger(build[1]), LAMBDA x : x # <<"schedule">>)
    IN ListsTags(result[1].message[1],
                 IF <<"schedule">> \in TagSet(build[1])
                 THEN (IF Len(rest) = 1 THEN << >> ELSE rest)
                 ELSE NonTrigger(build[1]))

\* tags [trigger-abc, nightly] have been rendered as a tag block
C8_Witness ==
  /\ Rendered
  /\ build[1].tags = << <<"trigger-", "abc">>, <<"nightly">> >>
  /\ Len(TagBlocks(result[1].message[1])) = 1

\* the summary line made of a description, a type and a target
SummaryLine(b, organizationId) ==
  statusCodes[b.status].text \o <<": ">>
    \o (IF <<"schedule">> \in TagSet(b) THEN <<"Schedule">> ELSE <<"Build">>)
    \o <<" for ">>
    \o (IF organizationId # << >> THEN organizationId
        ELSE IF branchName(b) # undefined /\ branchName(b) # << >> THEN branchName(b)
        ELSE b.id)

\* C9 as stated: the text is "{description}: {type} for {target}", and the
\* organization id of a Schedule build is its tags without the sentinel,
\* joined by ", ".
C9_SummaryLine ==
  Rendered =>
    result[1].message[1].text =
      SummaryLine(build[1],
                  IF <<"schedule">> \in TagSet(build[1])
                  THEN join(SelectSeq(build[1].tags, LAMBDA x : x # <<"schedule">>), <<", ">>)
                  ELSE << >>)

\* C9 as amended: the organization id of a Schedule build is its tags without
\* the sentinel and without the tags that start with trigger-, joined by ", ".
C9_SummaryLineAmended ==
  Rendered =>
    /\ result[1].message[1].text =
         SummaryLine(build[1],
                     IF <<"schedule">> \in TagSet(build[1])
                     THEN join(SelectSeq(NonTrigger(build[1]), LAMBDA x : x # <<"schedule">>),
                               <<", ">>)
                     ELSE << >>)
    /\ (/\ build[1].status = "SUCCESS" /\ TagSet(build[1]) = {}
        /\ build[1].substitutions.BRANCH_NAME = <<"main">>)
         => result[1].message[1].text =
              <<"Build successfully completed", ": ", "Build", " for ", "main">>

\* tags [schedule, team-x] with status FAILURE have been rendered as a
\* Schedule for team-x
C9_Witness ==
  /\ Rendered
  /\ build[1].status = "FAILURE"
  /\ build[1].tags = << <<"schedule">>, <<"team-x">> >>
  /\ result[1].message[1].text = <<"Build failed", ": ", "Schedule", " for ", "team-x">>

\* the Start and Finish fields of a message of part_001
TimeField(name, value) == <<"*", name, ":*", "\n">> \o value \o <<"\n">>

\* C10 as stated: a present time is rendered as a date token with the Unix
\* seconds of the time and its literal, an absent time as n/a, and formatting
\* the same event twice gives the same message.
C10_TimestampRendering ==
  (deployed = "part_001" /\ Decoded)
    => LET fields == result[1].message[1].blocks[2].fields
           token(t) ==
             IF t = undefined THEN <<"n/a">>
             ELSE <<"<!date^",
                    IF t = StartTime THEN "1704067200" ELSE "1704067800",
                    "^{date_short_pretty} {time_secs}|">> \o t \o <<">">>
       IN /\ fields[7].text = TimeField("Start", token(build[1].startTime))
          /\ fields[8].text = TimeField("Finish", token(build[1].finishTime))
          /\ prev # << >> => prev = result

\* the repository fields of a build after the fallback merge: the field of
\* the build when present, otherwise the substitution, otherwise undefined
C11_Merged(b) ==
  LET rs == IF b.source.present THEN b.source.repoSource ELSE NoRepoSource
      rrs == IF b.sourceProvenance.present THEN b.sourceProvenance.resolvedRepoSource
             ELSE NoResolvedRepoSource
      su == b.substitutions
  IN [ projectId  |-> rs.projectId,
       repoName   |-> FirstPresent(<<rs.repoName, su.REPO_NAME>>),
       branchName |-> FirstPresent(<<rs.branchName, su.BRANCH_NAME>>),
       commitSha  |-> FirstPresent(<<rrs.commitSha, su.COMMIT_SHA, su.REVISION_ID>>) ]

\* a value, or the placeholder when it is undefined
OrPlaceholder(value, placeholder) == IF value = undefined THEN placeholder ELSE value

\* a message of index.js has a context block that shows value under name
ShowsField(m, name, value) ==
  \E i \in DOMAIN m.blocks :
    /\ m.blocks[i].type = "context"
    /\ Len(m.blocks[i].elements) = 1
    /\ m.blocks[i].elements[1].text = <<name, "\n", "*">> \o value \o <<"*">>

\* the repository fields are rendered from the merged values: by part_001 in
\* the Repo and Branch fields and in the commit link, by index.js in the
\* Branch, Commit and Repo blocks it emits when one of the three is known
C11_RendersMerged(b, r) ==
  LET f == C11_Merged(b) IN
  /\ r.error = "none"
  /\ IF deployed = "part_001"
     THEN LET fields == r.message[1].blocks[2].fields IN
          /\ fields[2].text = TimeField("Repo", OrPlaceholder(f.repoName, <<"n/a">>))
          /\ fields[3].text = TimeField("Branch", OrPlaceholder(f.branchName, <<"n/a">>))
          /\ (f.projectId # undefined /\ f.repoName # undefined)
               => r.commitLink =
                    IF f.commitSha = undefined THEN <<"n/a">>
                    ELSE <<"<", "https://source.cloud.google.com/">> \o f.projectId
                           \o <<"/">> \o f.repoName \o <<"/+/">> \o f.commitSha \o <<"|">>
                           \o backquote
                           \o SubSeq(f.commitSha, 1,
                                     IF Len(f.commitSha) < 7 THEN Len(f.commitSha) ELSE 7)
                           \o backquote \o <<">">>
     ELSE (f.repoName # undefined \/ f.branchName # undefined \/ f.commitSha # undefined)
            => /\ ShowsField(r.message[1], "Repo", OrPlaceholder(f.repoName, <<"-">>))
               /\ ShowsField(r.message[1], "Branch", OrPlaceholder(f.branchName, <<"-">>))
               /\ ShowsField(r.message[1], "Commit", OrPlaceholder(f.commitSha, <<"-">>))

\* C11 as stated: repo name, branch name and commit SHA are rendered from the
\* field of the build when it is present and from the substitution
\* (COMMIT_SHA, then REVISION_ID, for the commit) only when it is absent, and
\* an absent source, sourceProvenance or substitutions record does not make
\* formatting fail. The builds are those whose status is in the status table.
C11_FallbackMerge ==
  (deployed \in {"index", "part_001"} /\ Decoded
     /\ build[1].status \in DOMAIN statusCodes)
    => C11_RendersMerged(build[1], result[1])

\* the tag block of a message shows tag x as a code-formatted token
ShowsTag(m, x) ==
  \E k \in DOMAIN TagBlocks(m) :
    LET text == TagBlocks(m)[k].elements[1].text IN
    \E i \in 1..Len(text) :
      /\ i + Len(x) + 1 <= Len(text)
      /\ SubSeq(text, i, i + Len(x) + 1) = backquote \o x \o backquote

\* the tags of a build that make up the organization id of a Schedule build
C12_OrganizationTags(b) == SelectSeq(NonTrigger(b), LAMBDA x : x # <<"schedule">>)

\* C12 as stated: in the message of a Schedule build no tag that contributes
\* to the organization id is in the tag block, however many such tags there
\* are, and "schedule" is never in the tag block.
C12_NoTagShownTwice ==
  (Rendered /\ <<"schedule">> \in TagSet(build[1]))
    => /\ ~ShowsTag(result[1].message[1], <<"schedule">>)
       /\ \A x \in Range(C12_OrganizationTags(build[1])) :
            ~ShowsTag(result[1].message[1], x)

====
